---- MODULE Spec2Model ----
(***************************************************************************)
(* Model of consulate/api/acl.py: the module-level input validators, the   *)
(* payload formatter, and the ACL endpoint client.                         *)
(*                                                                         *)
(* Text (str) is a sequence of one-character strings.  A mapping (dict) is *)
(* a sequence of <<key, value>> pairs with distinct keys, in insertion     *)
(* order.  A Python value that may be None is a tagged record.             *)
(***************************************************************************)
EXTENDS Integers, Sequences, FiniteSets, TLC

VARIABLES
    structures,   \* argument given to a validator / the formatter
    fn,           \* name of the module-level function applied last
    result,       \* its outcome (value returned or exception raised)
    decoded,      \* json.loads of the formatter's text, when it was decoded
    nrequests,    \* number of requests handed to the transport so far
    sent,         \* the request the last call handed over, if it did
    response,     \* the transport's answer to the last request
    call,         \* the last Endpoint Client call: operation and arguments
    outcome,      \* what the last call returned or raised
    ncalls        \* number of Endpoint Client calls made

fvars == <<structures, fn, result, decoded>>
cvars == <<nrequests, sent, response, call, outcome, ncalls>>
vars == <<structures, fn, result, decoded,
          nrequests, sent, response, call, outcome, ncalls>>

(***************************************************************************)
(* Bounds                                                                  *)
(***************************************************************************)
MaxLen == 2      \* longest list of mappings given to a validator
MaxKeys == 2     \* most keys in one mapping
MaxCalls == 2    \* longest sequence of Endpoint Client calls

(***************************************************************************)
(* Python values                                                           *)
(***************************************************************************)
PyNone == [t |-> "None"]
PyBool(b) == [t |-> "bool", b |-> b]
PyStr(s) == [t |-> "str", s |-> s]
PyList(l) == [t |-> "list", l |-> l]
PyDict(d) == [t |-> "dict", d |-> d]

\* Python truthiness, as used by "if x" / "not x" / "a and b".
Truthy(v) ==
    CASE v.t = "None" -> FALSE
      [] v.t = "bool" -> v.b
      [] v.t = "str"  -> v.s # <<>>
      [] v.t = "list" -> v.l # <<>>
      [] v.t = "dict" -> v.d # <<>>

Return(v) == [kind |-> "return", exc |-> "", val |-> v]
Raise(e, v) == [kind |-> "raise", exc |-> e, val |-> v]
NoOutcome == [kind |-> "none", exc |-> "", val |-> PyNone]

(***************************************************************************)
(* Keys and values of the mappings the validators look at                  *)
(***************************************************************************)
K_ID == <<"I", "D">>
K_Name == <<"N", "a", "m", "e">>
K_ServiceName == <<"S", "e", "r", "v", "i", "c", "e", "N", "a", "m", "e">>
\* one plain value, one that needs both JSON escapes (quote and backslash)
ValStrs == {<<"a">>, <<"\"", "\\">>}

HasKey(d, k) == \E i \in 1..Len(d) : d[i][1] = k

\* the keys of a mapping are inserted in this order
KeyOrder == <<K_ID, K_Name, K_ServiceName>>

\* the mapping with the keys KeyOrder[i], i in S, and the values v[i]
RECURSIVE DictOf(_, _)
DictOf(S, v) ==
    IF S = {} THEN <<>>
    ELSE LET i == CHOOSE j \in S : \A k \in S : k <= j
         IN  Append(DictOf(S \ {i}, v), <<KeyOrder[i], v[i]>>)

Dicts ==
    UNION {{DictOf(S, v) : v \in [S -> ValStrs]} :
             S \in {T \in SUBSET (1..Len(KeyOrder)) : Cardinality(T) <= MaxKeys}}

Lists == UNION {[1..n -> Dicts] : n \in 0..MaxLen}

(***************************************************************************)
(* str(mapping): Python's repr of a dict of str to str.  No text of the    *)
(* model contains an apostrophe, so repr always picks single quotes; a     *)
(* backslash is doubled.                                                   *)
(***************************************************************************)
RECURSIVE Cat(_)
Cat(ss) == IF ss = <<>> THEN <<>> ELSE Head(ss) \o Cat(Tail(ss))

RECURSIVE Join(_, _)
Join(sep, ss) ==
    IF ss = <<>> THEN <<>>
    ELSE IF Len(ss) = 1 THEN ss[1]
    ELSE ss[1] \o sep \o Join(sep, Tail(ss))

repr_char(c) == IF c = "\\" THEN <<"\\", "\\">> ELSE <<c>>
repr_str(s) ==
    <<"'">> \o Cat([i \in 1..Len(s) |-> repr_char(s[i])]) \o <<"'">>
str(d) ==
    <<"{">>
    \o Join(<<",", " ">>,
            [i \in 1..Len(d) |->
                repr_str(d[i][1]) \o <<":", " ">> \o repr_str(d[i][2])])
    \o <<"}">>

(***************************************************************************)
(* json.dumps / json.loads on a list of mappings of str to str             *)
(***************************************************************************)
json_char(c) ==
    IF c = "\"" THEN <<"\\", "\"">>
    ELSE IF c = "\\" THEN <<"\\", "\\">>
    ELSE <<c>>
json_str(s) ==
    <<"\"">> \o Cat([i \in 1..Len(s) |-> json_char(s[i])]) \o <<"\"">>
json_dict(d) ==
    <<"{">>
    \o Join(<<",", " ">>,
            [i \in 1..Len(d) |->
                json_str(d[i][1]) \o <<":", " ">> \o json_str(d[i][2])])
    \o <<"}">>
json_dumps(l) ==
    <<"[">>
    \o Join(<<",", " ">>, [i \in 1..Len(l) |-> json_dict(l[i])])
    \o <<"]">>

\* The decoder is a recursive-descent scanner.  Each scanner returns
\* [ok, v, n]: whether it succeeded, the value, and the next position.
At(t, i) == IF i \in 1..Len(t) THEN t[i] ELSE "EOF"
Fail == [ok |-> FALSE, v |-> <<>>, n |-> 0]

RECURSIVE SkipWs(_, _)
SkipWs(t, i) == IF At(t, i) = " " THEN SkipWs(t, i + 1) ELSE i

RECURSIVE ScanChars(_, _, _)
ScanChars(t, i, acc) ==
    CASE At(t, i) = "EOF" -> Fail
      [] At(t, i) = "\"" -> [ok |-> TRUE, v |-> acc, n |-> i + 1]
      [] At(t, i) = "\\" ->
            IF At(t, i + 1) \in {"\"", "\\"}
            THEN ScanChars(t, i + 2, Append(acc, t[i + 1]))
            ELSE Fail
      [] OTHER -> ScanChars(t, i + 1, Append(acc, t[i]))

ScanString(t, i) ==
    IF At(t, i) = "\"" THEN ScanChars(t, i + 1, <<>>) ELSE Fail

RECURSIVE ScanMembers(_, _, _)
ScanMembers(t, i, acc) ==
    LET k == ScanString(t, SkipWs(t, i)) IN
    IF ~k.ok THEN Fail ELSE
    LET c == SkipWs(t, k.n) IN
    IF At(t, c) # ":" THEN Fail ELSE
    LET v == ScanString(t, SkipWs(t, c + 1)) IN
    IF ~v.ok THEN Fail ELSE
    LET e == SkipWs(t, v.n)
        \* a repeated key keeps its first position and takes the last value
        put == IF HasKey(acc, k.v)
               THEN [j \in 1..Len(acc) |->
                        IF acc[j][1] = k.v THEN <<k.v, v.v>> ELSE acc[j]]
               ELSE Append(acc, <<k.v, v.v>>)
    IN  CASE At(t, e) = "," -> ScanMembers(t, e + 1, put)
          [] At(t, e) = "}" -> [ok |-> TRUE, v |-> put, n |-> e + 1]
          [] OTHER -> Fail

ScanObject(t, i) ==
    IF At(t, i) # "{" THEN Fail
    ELSE IF At(t, SkipWs(t, i + 1)) = "}"
         THEN [ok |-> TRUE, v |-> <<>>, n |-> SkipWs(t, i + 1) + 1]
         ELSE ScanMembers(t, i + 1, <<>>)

RECURSIVE ScanElements(_, _, _)
ScanElements(t, i, acc) ==
    LET o == ScanObject(t, SkipWs(t, i)) IN
    IF ~o.ok THEN Fail ELSE
    LET e == SkipWs(t, o.n) IN
    CASE At(t, e) = "," -> ScanElements(t, e + 1, Append(acc, o.v))
      [] At(t, e) = "]" -> [ok |-> TRUE, v |-> Append(acc, o.v), n |-> e + 1]
      [] OTHER -> Fail

ScanArray(t, i) ==
    IF At(t, i) # "[" THEN Fail
    ELSE IF At(t, SkipWs(t, i + 1)) = "]"
         THEN [ok |-> TRUE, v |-> <<>>, n |-> SkipWs(t, i + 1) + 1]
         ELSE ScanElements(t, i + 1, <<>>)

\* json.loads: the decoded list, or a JSONDecodeError.
json_loads(t) ==
    LET a == ScanArray(t, SkipWs(t, 1)) IN
    IF a.ok /\ SkipWs(t, a.n) = Len(t) + 1
    THEN Return(PyList(a.v))
    ELSE Raise("JSONDecodeError", PyNone)

(***************************************************************************)
(* Input validators and payload formatter                                  *)
(***************************************************************************)
\* variant: "and" in place of "or"
policy_ok_both(policy) == HasKey(policy, K_ID) /\ HasKey(policy, K_Name)

\* "if not ('ID' in policy or 'Name' in policy)"
policy_ok(policy) == HasKey(policy, K_ID) \/ HasKey(policy, K_Name)

\* first index, in iteration order, at which the test fires; 0 if none
FirstBad(fires) ==
    IF \E i \in 1..Len(fires) : fires[i]
    THEN CHOOSE i \in 1..Len(fires) :
            fires[i] /\ \A j \in 1..(i - 1) : ~fires[j]
    ELSE 0

policy_bad(policy) == ~policy_ok(policy)
__check_policylinks(policies) ==
    LET i == FirstBad([j \in 1..Len(policies) |-> policy_bad(policies[j])]) IN
    IF i # 0
    THEN Raise("ACLPolicyFormatError", PyStr(str(policies[i])))
    ELSE Return(PyBool(TRUE))

\* variant: tests the key Name in place of ServiceName
service_identity_bad_name(service_identity) ==
    ~HasKey(service_identity, K_Name)

service_identity_bad(service_identity) ==
    ~HasKey(service_identity, K_ServiceName)
__check_service_identities(service_identities) ==
    LET i == FirstBad([j \in 1..Len(service_identities) |->
                          service_identity_bad(service_identities[j])]) IN
    IF i # 0
    THEN Raise("ACLPolicyFormatError", PyStr(str(service_identities[i])))
    ELSE Return(PyBool(TRUE))

\* calling the function object handed over as "check"
Check(check, l) ==
    IF check = "__check_policylinks" THEN __check_policylinks(l)
    ELSE __check_service_identities(l)

\* variant: "if structures and check(structures)"
__create_json_format_truthy(s, check) ==
    IF ~Truthy(s) THEN Return(PyNone)
    ELSE LET c == Check(check, s.l) IN
         IF c.kind = "raise" THEN c
         ELSE IF Truthy(c.val) THEN Return(PyStr(json_dumps(s.l)))
         ELSE Return(PyNone)

\* variant: str(structures) in place of json.dumps(structures)
__create_json_format_repr(s, check) ==
    IF s.t = "None" THEN Return(PyNone)
    ELSE LET c == Check(check, s.l) IN
         IF c.kind = "raise" THEN c
         ELSE IF Truthy(c.val)
              THEN Return(PyStr(<<"[">>
                                \o Join(<<",", " ">>,
                                        [i \in 1..Len(s.l) |-> str(s.l[i])])
                                \o <<"]">>))
         ELSE Return(PyNone)

\* "if structures is not None and check(structures)"
__create_json_format(s, check) ==
    IF s.t = "None" THEN Return(PyNone)
    ELSE LET c == Check(check, s.l) IN
         IF c.kind = "raise" THEN c
         ELSE IF Truthy(c.val) THEN Return(PyStr(json_dumps(s.l)))
         ELSE Return(PyNone)

(***************************************************************************)
(* Transport collaborator and the base.Endpoint helpers the client uses    *)
(***************************************************************************)
PyText(x) == [t |-> "text", x |-> x]     \* an opaque str argument
PyStrs(l) == [t |-> "strs", l |-> l]     \* a list of opaque strs
PyBody(m) == [t |-> "body", m |-> m]     \* a request body: wire key -> value

\* "not response" in info(): Python truthiness of what _get returned
Falsy(v) ==
    CASE v.t = "text" -> v.x = ""
      [] v.t = "strs" -> v.l = <<>>
      [] OTHER -> ~Truthy(v)

NoRequest == [verb |-> "", path |-> <<>>, body |-> PyNone, raise_on_404 |-> FALSE]
NoResponse == [status |-> 0, body |-> PyNone]

_get(params, raise_on_404) ==
    [verb |-> "GET", path |-> params, body |-> PyNone,
     raise_on_404 |-> raise_on_404]
_put_response_body(params, body) ==
    [verb |-> "PUT", path |-> params, body |-> body, raise_on_404 |-> FALSE]
_delete(params) ==
    [verb |-> "DELETE", path |-> params, body |-> PyNone,
     raise_on_404 |-> FALSE]
\* self._adapter.put(self._build_uri(params))
adapter_put(params) ==
    [verb |-> "PUT", path |-> params, body |-> PyNone, raise_on_404 |-> FALSE]

\* status-code-to-exception mapping shared by _get, _put_response_body, _delete
response_outcome(req, resp) ==
    CASE resp.status = 403 -> Raise("Forbidden", resp.body)
      [] resp.status = 404 /\ req.raise_on_404 -> Raise("NotFound", resp.body)
      [] resp.status \notin 200..299 -> Raise("RequestError", resp.body)
      [] OTHER -> Return(resp.body)

(***************************************************************************)
(* Request models: consulate.models.acl                                    *)
(***************************************************************************)
Kw(kw, f) == IF f \in DOMAIN kw THEN kw[f] ELSE PyNone

\* dict(model): one wire key per field that is not None
ToDict(kw, wire) ==
    LET set == {f \in DOMAIN wire : Kw(kw, f).t # "None"} IN
    PyBody([k \in {wire[f] : f \in set} |->
              kw[CHOOSE f \in set : wire[f] = k]])

ACLPolicyWire ==
    [name |-> "Name", datacenters |-> "Datacenters",
     description |-> "Description", rules |-> "Rules",
     policies |-> "Policies", service_identities |-> "ServiceIdentities"]

ACLWire ==
    [id |-> "ID", name |-> "Name", type |-> "Type", rules |-> "Rules"]

\* model.ACLPolicy(**kw) followed by dict(): the links are validated when the
\* model is built, then the set fields are serialized
ACLPolicy(kw) ==
    LET p == Kw(kw, "policies")
        s == Kw(kw, "service_identities")
        pc == IF p.t = "None" THEN Return(PyBool(TRUE))
              ELSE __check_policylinks(p.l)
        sc == IF s.t = "None" THEN Return(PyBool(TRUE))
              ELSE __check_service_identities(s.l)
    IN  IF pc.kind = "raise" THEN pc
        ELSE IF sc.kind = "raise" THEN sc
        ELSE Return(ToDict(kw, ACLPolicyWire))

\* model.ACL(**kw) followed by dict()
ACL(kw) == Return(ToDict(kw, ACLWire))

(***************************************************************************)
(* Endpoint client: what each method builds and how it reads the answer    *)
(***************************************************************************)
read_self_token_request == _get(<<"token", "self">>, FALSE)
list_policies_request == _get(<<"policies">>, FALSE)
read_policy_request(id) == _get(<<"policy", id>>, FALSE)

\* variant: description is handed over as rules
create_policy_model_slip(name, datacenters, description, rules) ==
    ACLPolicy([name |-> name, datacenters |-> datacenters,
               rules |-> description])

create_policy_model(name, datacenters, description, rules) ==
    ACLPolicy([name |-> name, datacenters |-> datacenters,
               description |-> description, rules |-> rules])
create_policy_request(body) == _put_response_body(<<"policy">>, body)

update_policy_model(name, datacenters, description, rules) ==
    ACLPolicy([name |-> name, datacenters |-> datacenters,
               description |-> description, rules |-> rules])
update_policy_request(id, body) == _put_response_body(<<"policy", id>>, body)

delete_policy_request(id) == _delete(<<"policy", id>>)
list_roles_request == _get(<<"roles">>, FALSE)

\* variant: policies is not handed to the model
create_role_model_nopolicies(name, description, policies, service_identities) ==
    ACLPolicy([name |-> name, description |-> description,
               service_identities |-> service_identities])

create_role_model(name, description, policies, service_identities) ==
    ACLPolicy([name |-> name, description |-> description,
               policies |-> policies,
               service_identities |-> service_identities])
create_role_request(body) == _put_response_body(<<"role">>, body)

bootstrap_request == _put_response_body(<<"bootstrap">>, PyNone)

create_model(name, acl_type, rules) ==
    ACL([name |-> name, type |-> acl_type, rules |-> rules])
create_request(body) == _put_response_body(<<"create">>, body)

clone_request(acl_id) == _put_response_body(<<"clone", acl_id>>, PyNone)
destroy_request(acl_id) == adapter_put(<<"destroy", acl_id>>)
info_request(acl_id) == _get(<<"info", acl_id>>, TRUE)
list_request == _get(<<"list">>, FALSE)
replication_request == _get(<<"replication">>, FALSE)

update_model(acl_id, name, acl_type, rules) ==
    ACL([id |-> PyText(acl_id), name |-> name, type |-> acl_type,
         rules |-> rules])
\* variant: the token id is also put in the path
update_request_idpath(body) ==
    _put_response_body(<<"update", body.m["ID"].x>>, body)

update_request(body) == _put_response_body(<<"update">>, body)

\* the trailing ['ID'] of bootstrap, create, clone and update
subscript_ID(o) ==
    IF o.kind = "raise" THEN o
    ELSE IF o.val.t # "dict" THEN Raise("TypeError", PyNone)
    ELSE IF ~HasKey(o.val.d, K_ID) THEN Raise("KeyError", PyStr(K_ID))
    ELSE Return(PyStr(
            o.val.d[CHOOSE i \in 1..Len(o.val.d) : o.val.d[i][1] = K_ID][2]))

\* variant: any 2xx counts as success
destroy_outcome_2xx(resp) ==
    IF resp.status = 403 THEN Raise("Forbidden", resp.body)
    ELSE Return(PyBool(resp.status \in 200..299))

\* destroy: 403 raises, anything else is compared with 200
destroy_outcome(resp) ==
    IF resp.status = 403 THEN Raise("Forbidden", resp.body)
    ELSE Return(PyBool(resp.status = 200))

\* variant: only None becomes NotFound
info_outcome_none_only(o) ==
    IF o.kind = "raise" THEN o
    ELSE IF o.val.t = "None" THEN Raise("NotFound", PyText("ACL not found"))
    ELSE o

\* info: a falsy answer becomes NotFound
info_outcome(o) ==
    IF o.kind = "raise" THEN o
    ELSE IF Falsy(o.val) THEN Raise("NotFound", PyText("ACL not found"))
    ELSE o

(***************************************************************************)
(* Arguments and answers the environment can supply                        *)
(***************************************************************************)
Ids == {"t1", "t2"}
Names == {PyText("p")}
OptDatacenters == {PyNone, PyStrs(<<"dc1">>)}
OptDescription == {PyNone, PyText("d")}
OptRules == {PyNone, PyText("r")}
AclTypes == {PyText("client"), PyText("management")}
\* absent, empty, one element that fails both validators, one that passes both
OptLinks ==
    {PyNone,
     PyList(<<>>),
     PyList(<< <<>> >>),
     PyList(<< <<<<K_ServiceName, <<"a">>>>, <<K_ID, <<"a">>>>>> >>)}

Bodies ==
    {PyNone, PyText(""), PyDict(<<>>), PyList(<<>>),
     PyDict(<<<<K_ID, <<"a">>>>>>),
     PyList(<< <<<<K_ID, <<"a">>>>>> >>)}
Responses ==
    [status : {200}, body : Bodies]
    \cup [status : {204}, body : {PyNone}]
    \cup [status : {403}, body : {PyText(""), PyText("denied")}]
    \cup [status : {404, 500}, body : {PyText("")}]

NoArgs == [none |-> PyNone]

Inputs == {PyNone} \cup {PyList(l) : l \in Lists}

ClientIdle ==
    /\ nrequests = 0
    /\ sent = NoRequest
    /\ response = NoResponse
    /\ call = [op |-> "", args |-> NoArgs]
    /\ outcome = NoOutcome
    /\ ncalls = 0

FnIdle ==
    /\ fn = ""
    /\ result = NoOutcome
    /\ decoded = NoOutcome

Init ==
    /\ structures = PyNone
    /\ FnIdle
    /\ ClientIdle

\* the call hands req to the transport, which answers resp
Exchange(op, args, req, resp, out) ==
    /\ ncalls' = ncalls + 1
    /\ call' = [op |-> op, args |-> args]
    /\ nrequests' = nrequests + 1
    /\ sent' = req
    /\ response' = resp
    /\ outcome' = out
    /\ UNCHANGED fvars

\* the call raises before anything reaches the transport
Reject(op, args, out) ==
    /\ ncalls' = ncalls + 1
    /\ call' = [op |-> op, args |-> args]
    /\ nrequests' = nrequests
    /\ sent' = NoRequest
    /\ response' = NoResponse
    /\ outcome' = out
    /\ UNCHANGED fvars

\* a PUT whose body comes from a request model
PutModel(op, args, model, req, resp, out) ==
    IF model.kind = "raise"
    THEN Reject(op, args, model)
    ELSE Exchange(op, args, req, resp, out)

read_self_token ==
    /\ ncalls < MaxCalls
    /\ \E resp \in Responses :
           LET req == read_self_token_request IN
           Exchange("read_self_token", NoArgs, req, resp,
                    response_outcome(req, resp))

list_policies ==
    /\ ncalls < MaxCalls
    /\ \E resp \in Responses :
           LET req == list_policies_request IN
           Exchange("list_policies", NoArgs, req, resp,
                    response_outcome(req, resp))

read_policy ==
    /\ ncalls < MaxCalls
    /\ \E id \in Ids, resp \in Responses :
           LET req == read_policy_request(id) IN
           Exchange("read_policy", [id |-> PyText(id)], req, resp,
                    response_outcome(req, resp))

create_policy ==
    /\ ncalls < MaxCalls
    /\ \E name \in Names, datacenters \in OptDatacenters,
          description \in OptDescription, rules \in OptRules,
          resp \in Responses :
           LET model == create_policy_model(name, datacenters, description,
                                            rules)
               req == create_policy_request(model.val)
           IN  PutModel("create_policy",
                        [name |-> name, datacenters |-> datacenters,
                         description |-> description, rules |-> rules],
                        model, req, resp, response_outcome(req, resp))

update_policy ==
    /\ ncalls < MaxCalls
    /\ \E id \in Ids, name \in Names, datacenters \in OptDatacenters,
          description \in OptDescription, rules \in OptRules,
          resp \in Responses :
           LET model == update_policy_model(name, datacenters, description,
                                            rules)
               req == update_policy_request(id, model.val)
           IN  PutModel("update_policy",
                        [id |-> PyText(id), name |-> name,
                         datacenters |-> datacenters,
                         description |-> description, rules |-> rules],
                        model, req, resp, response_outcome(req, resp))

delete_policy ==
    /\ ncalls < MaxCalls
    /\ \E id \in Ids, resp \in Responses :
           LET req == delete_policy_request(id) IN
           Exchange("delete_policy", [id |-> PyText(id)], req, resp,
                    response_outcome(req, resp))

list_roles ==
    /\ ncalls < MaxCalls
    /\ \E resp \in Responses :
           LET req == list_roles_request IN
           Exchange("list_roles", NoArgs, req, resp,
                    response_outcome(req, resp))

create_role ==
    /\ ncalls < MaxCalls
    /\ \E name \in Names, description \in OptDescription,
          policies \in OptLinks, service_identities \in OptLinks,
          resp \in Responses :
           LET model == create_role_model(name, description, policies,
                                          service_identities)
               req == create_role_request(model.val)
           IN  PutModel("create_role",
                        [name |-> name, description |-> description,
                         policies |-> policies,
                         service_identities |-> service_identities],
                        model, req, resp, response_outcome(req, resp))

bootstrap ==
    /\ ncalls < MaxCalls
    /\ \E resp \in Responses :
           LET req == bootstrap_request IN
           Exchange("bootstrap", NoArgs, req, resp,
                    subscript_ID(response_outcome(req, resp)))

create ==
    /\ ncalls < MaxCalls
    /\ \E name \in Names, acl_type \in AclTypes, rules \in OptRules,
          resp \in Responses :
           LET model == create_model(name, acl_type, rules)
               req == create_request(model.val)
           IN  PutModel("create",
                        [name |-> name, acl_type |-> acl_type, rules |-> rules],
                        model, req, resp,
                        subscript_ID(response_outcome(req, resp)))

clone ==
    /\ ncalls < MaxCalls
    /\ \E acl_id \in Ids, resp \in Responses :
           LET req == clone_request(acl_id) IN
           Exchange("clone", [acl_id |-> PyText(acl_id)], req, resp,
                    subscript_ID(response_outcome(req, resp)))

\* variant: the PUT is repeated once when the answer is not 200
destroy_retry ==
    /\ ncalls < MaxCalls
    /\ \E acl_id \in Ids, resp \in Responses :
        /\ ncalls' = ncalls + 1
        /\ call' = [op |-> "destroy", args |-> [acl_id |-> PyText(acl_id)]]
        /\ nrequests' = nrequests + (IF resp.status = 200 THEN 1 ELSE 2)
        /\ sent' = destroy_request(acl_id)
        /\ response' = resp
        /\ outcome' = destroy_outcome(resp)
        /\ UNCHANGED fvars

destroy ==
    /\ ncalls < MaxCalls
    /\ \E acl_id \in Ids, resp \in Responses :
           Exchange("destroy", [acl_id |-> PyText(acl_id)],
                    destroy_request(acl_id), resp, destroy_outcome(resp))

info ==
    /\ ncalls < MaxCalls
    /\ \E acl_id \in Ids, resp \in Responses :
           LET req == info_request(acl_id) IN
           Exchange("info", [acl_id |-> PyText(acl_id)], req, resp,
                    info_outcome(response_outcome(req, resp)))

list ==
    /\ ncalls < MaxCalls
    /\ \E resp \in Responses :
           LET req == list_request IN
           Exchange("list", NoArgs, req, resp, response_outcome(req, resp))

replication ==
    /\ ncalls < MaxCalls
    /\ \E resp \in Responses :
           LET req == replication_request IN
           Exchange("replication", NoArgs, req, resp,
                    response_outcome(req, resp))

update ==
    /\ ncalls < MaxCalls
    /\ \E acl_id \in Ids, name \in Names, acl_type \in AclTypes,
          rules \in OptRules, resp \in Responses :
           LET model == update_model(acl_id, name, acl_type, rules)
               req == update_request(model.val)
           IN  PutModel("update",
                        [acl_id |-> PyText(acl_id), name |-> name,
                         acl_type |-> acl_type, rules |-> rules],
                        model, req, resp,
                        subscript_ID(response_outcome(req, resp)))

Next ==
    \/ read_self_token
    \/ list_policies
    \/ read_policy
    \/ create_policy
    \/ update_policy
    \/ delete_policy
    \/ list_roles
    \/ create_role
    \/ bootstrap
    \/ create
    \/ clone
    \/ destroy
    \/ info
    \/ list
    \/ replication
    \/ update

Spec == Init /\ [][Next]_vars

(***************************************************************************)
(* Specification of the module-level functions: the argument is drawn in   *)
(* the initial state, every action applies one function to it.             *)
(***************************************************************************)
InitFn ==
    /\ structures \in Inputs
    /\ FnIdle
    /\ ClientIdle

\* iterating over None raises TypeError before the loop body runs
Apply(check, s) ==
    IF s.t = "None" THEN Raise("TypeError", PyNone) ELSE Check(check, s.l)

check_policylinks ==
    /\ fn' = "__check_policylinks"
    /\ result' = Apply("__check_policylinks", structures)
    /\ decoded' = NoOutcome
    /\ UNCHANGED <<structures, cvars>>

check_service_identities ==
    /\ fn' = "__check_service_identities"
    /\ result' = Apply("__check_service_identities", structures)
    /\ decoded' = NoOutcome
    /\ UNCHANGED <<structures, cvars>>

format_policylinks ==
    /\ fn' = "format_policylinks"
    /\ result' = __create_json_format(structures, "__check_policylinks")
    /\ decoded' = NoOutcome
    /\ UNCHANGED <<structures, cvars>>

format_service_identities ==
    /\ fn' = "format_service_identities"
    /\ result' = __create_json_format(structures, "__check_service_identities")
    /\ decoded' = NoOutcome
    /\ UNCHANGED <<structures, cvars>>

\* the receiving side decodes the text the formatter produced
decode ==
    /\ fn \in {"format_policylinks", "format_service_identities"}
    /\ result.kind = "return"
    /\ result.val.t = "str"
    /\ decoded = NoOutcome
    /\ decoded' = json_loads(result.val.s)
    /\ UNCHANGED <<structures, fn, result, cvars>>

NextFn ==
    \/ check_policylinks
    \/ check_service_identities
    \/ format_policylinks
    \/ format_service_identities
    \/ decode

SpecFn == InitFn /\ [][NextFn]_vars

(***************************************************************************)
(* Properties of the validators and the formatter                          *)
(***************************************************************************)
IsList(s) == s.t = "list"
AllHave(l, ks) ==
    \A i \in 1..Len(l) : \E k \in ks : HasKey(l[i], k)
Lacks(d, ks) == \A k \in ks : ~HasKey(d, k)
IsText(r) == r.kind = "return" /\ r.val.t = "str"
Formatted == fn \in {"format_policylinks", "format_service_identities"}
FormatKeys ==
    IF fn = "format_policylinks" THEN {K_ID, K_Name} ELSE {K_ServiceName}

\* C3: the policy-link validator returns True exactly when every element has
\* the key ID or the key Name (so also on the empty list); otherwise it raises
\* ACLPolicyFormatError whose detail is str() of the first element, in list
\* order, that has neither key.
C3_PolicyLinkValidator ==
    (fn = "__check_policylinks" /\ IsList(structures)) =>
        LET l == structures.l IN
        /\ (result = Return(PyBool(TRUE))) <=> AllHave(l, {K_ID, K_Name})
        /\ ~AllHave(l, {K_ID, K_Name}) =>
              /\ result.kind = "raise"
              /\ result.exc = "ACLPolicyFormatError"
              /\ \E i \in 1..Len(l) :
                    /\ Lacks(l[i], {K_ID, K_Name})
                    /\ \A j \in 1..(i - 1) : ~Lacks(l[j], {K_ID, K_Name})
                    /\ result.val = PyStr(str(l[i]))

\* two offending elements with different representations: the empty mapping
\* comes first and its representation "{}" is the detail
C3_Witness ==
    /\ fn = "__check_policylinks"
    /\ IsList(structures)
    /\ Len(structures.l) = 2
    /\ structures.l[1] = <<>>
    /\ structures.l[2] # <<>>
    /\ Lacks(structures.l[2], {K_ID, K_Name})
    /\ result = Raise("ACLPolicyFormatError", PyStr(<<"{", "}">>))

\* C4: the service-identity validator raises ACLPolicyFormatError when some
\* element lacks the key ServiceName, whatever other keys that element has,
\* and returns True when every element has ServiceName, also on the empty
\* list.
C4_ServiceIdentityValidator ==
    (fn = "__check_service_identities" /\ IsList(structures)) =>
        LET l == structures.l IN
        IF AllHave(l, {K_ServiceName})
        THEN result = Return(PyBool(TRUE))
        ELSE result.kind = "raise" /\ result.exc = "ACLPolicyFormatError"

\* an element that carries ID and Name but no ServiceName is rejected
C4_Witness ==
    /\ fn = "__check_service_identities"
    /\ IsList(structures)
    /\ \E i \in 1..Len(structures.l) :
          /\ HasKey(structures.l[i], K_ID)
          /\ HasKey(structures.l[i], K_Name)
    /\ result.kind = "raise"
    /\ result.exc = "ACLPolicyFormatError"

\* C5 as stated: the formatter returns the absent value, and no JSON text,
\* whenever its argument is absent or is the empty list; it returns JSON text
\* only for a non-empty list that passes the validator.
C5_AsStated ==
    Formatted =>
        /\ (structures = PyNone \/ structures = PyList(<<>>)) =>
              result = Return(PyNone)
        /\ IsText(result) =>
              /\ IsList(structures)
              /\ structures.l # <<>>
              /\ AllHave(structures.l, FormatKeys)

\* C5 amended: the formatter returns the absent value exactly when its
\* argument is absent; the empty list is formatted as the JSON text "[]";
\* it returns JSON text exactly for a list, empty or not, that passes the
\* validator, and raises the validator's error for any other list.
C5_Formatter ==
    Formatted =>
        /\ (result = Return(PyNone)) <=> (structures = PyNone)
        /\ structures = PyList(<<>>) => result = Return(PyStr(<<"[", "]">>))
        /\ IsText(result) <=>
              (IsList(structures) /\ AllHave(structures.l, FormatKeys))
        /\ (IsList(structures) /\ ~AllHave(structures.l, FormatKeys)) =>
              (result.kind = "raise" /\ result.exc = "ACLPolicyFormatError")

C5_Witness ==
    /\ Formatted
    /\ structures = PyList(<<>>)
    /\ result = Return(PyStr(<<"[", "]">>))

\* C6: for a non-empty list of policy links in which every element has ID or
\* Name, formatting with the policy-link validator succeeds and decoding the
\* JSON text gives back a list equal to the input.
C6_RoundTrip ==
    (/\ fn = "format_policylinks"
     /\ IsList(structures)
     /\ structures.l # <<>>
     /\ AllHave(structures.l, {K_ID, K_Name})) =>
        /\ IsText(result)
        /\ decoded # NoOutcome => decoded = Return(structures)

\* a two-element list whose values need escaping has been decoded
C6_Witness ==
    /\ fn = "format_policylinks"
    /\ IsList(structures)
    /\ Len(structures.l) = 2
    /\ \E i \in 1..2 : \E j \in 1..Len(structures.l[i]) :
          structures.l[i][j][2] = <<"\"", "\\">>
    /\ Len(structures.l[1]) = 2
    /\ decoded = Return(structures)

(***************************************************************************)
(* Properties of the endpoint client                                       *)
(***************************************************************************)
Called(op) == call.op = op
Sent == sent # NoRequest
CallId ==
    IF "id" \in DOMAIN call.args THEN call.args.id.x
    ELSE IF "acl_id" \in DOMAIN call.args THEN call.args.acl_id.x
    ELSE ""

\* C1: destroy returns True if and only if the status is exactly 200; on 403
\* it raises Forbidden carrying the response body; on every other status
\* (other 2xx, 404, 5xx) it returns False and raises nothing.
C1_Destroy ==
    Called("destroy") =>
        /\ (outcome = Return(PyBool(TRUE))) <=> (response.status = 200)
        /\ response.status = 403 => outcome = Raise("Forbidden", response.body)
        /\ response.status \notin {200, 403} =>
              outcome = Return(PyBool(FALSE))

\* a 2xx status other than 200 gives False
C1_Witness ==
    /\ Called("destroy")
    /\ response.status = 204
    /\ outcome = Return(PyBool(FALSE))

\* C2: create_role with a policies element that has neither ID nor Name, or a
\* service_identities element without ServiceName, raises
\* ACLPolicyFormatError and the call hands no request to the transport.
BadLinks(args) ==
    \/ /\ args.policies.t = "list"
       /\ \E i \in 1..Len(args.policies.l) :
             Lacks(args.policies.l[i], {K_ID, K_Name})
    \/ /\ args.service_identities.t = "list"
       /\ \E i \in 1..Len(args.service_identities.l) :
             Lacks(args.service_identities.l[i], {K_ServiceName})

EmptyResults == {PyNone, PyText(""), PyDict(<<>>), PyList(<<>>)}

C7_Info ==
    Called("info") =>
        /\ sent = [verb |-> "GET", path |-> <<"info", call.args.acl_id.x>>,
                   body |-> PyNone, raise_on_404 |-> TRUE]
        /\ (response.status \in 200..299 /\ response.body \in EmptyResults) =>
              (outcome.kind = "raise" /\ outcome.exc = "NotFound")
        /\ (response.status \in 200..299 /\ response.body \notin EmptyResults) =>
              outcome = Return(response.body)

\* a 200 answer with an empty mapping is turned into NotFound
C7_Witness ==
    /\ Called("info")
    /\ response = [status |-> 200, body |-> PyDict(<<>>)]
    /\ outcome.kind = "raise"
    /\ outcome.exc = "NotFound"

\* C8: every operation uses the verb and the path segments of its row in the
\* operation table; update carries the token id in the body, not in the path.
Row(op, id) ==
    CASE op = "read_self_token" -> <<"GET", <<"token", "self">>>>
      [] op = "list_policies"   -> <<"GET", <<"policies">>>>
      [] op = "read_policy"     -> <<"GET", <<"policy", id>>>>
      [] op = "list_roles"      -> <<"GET", <<"roles">>>>
      [] op = "info"            -> <<"GET", <<"info", id>>>>
      [] op = "list"            -> <<"GET", <<"list">>>>
      [] op = "replication"     -> <<"GET", <<"replication">>>>
      [] op = "create_policy"   -> <<"PUT", <<"policy">>>>
      [] op = "update_policy"   -> <<"PUT", <<"policy", id>>>>
      [] op = "create_role"     -> <<"PUT", <<"role">>>>
      [] op = "bootstrap"       -> <<"PUT", <<"bootstrap">>>>
      [] op = "create"          -> <<"PUT", <<"create">>>>
      [] op = "clone"           -> <<"PUT", <<"clone", id>>>>
      [] op = "destroy"         -> <<"PUT", <<"destroy", id>>>>
      [] op = "update"          -> <<"PUT", <<"update">>>>
      [] op = "delete_policy"   -> <<"DELETE", <<"policy", id>>>>

C8_VerbAndPath ==
    Sent =>
        /\ <<sent.verb, sent.path>> = Row(call.op, CallId)
        /\ Called("update") =>
              /\ sent.body.t = "body"
              /\ "ID" \in DOMAIN sent.body.m
              /\ sent.body.m["ID"] = call.args.acl_id

C8_Witness ==
    /\ Called("update")
    /\ call.args.acl_id = PyText("t2")
    /\ sent.verb = "PUT"
    /\ sent.path = <<"update">>
    /\ sent.body.m["ID"] = PyText("t2")

\* C9: every call hands at most one request to the transport, and exactly one
\* when it passed local validation, whatever the status of the answer and
\* whatever calls were made before it.
PassesValidation(c) == c.op = "create_role" => ~BadLinks(c.args)

C9_OneRequestPerCall ==
    [][/\ ncalls' = ncalls + 1
       /\ nrequests' =
             nrequests + (IF PassesValidation(call') THEN 1 ELSE 0)
       /\ PassesValidation(call') <=> sent' # NoRequest]_vars

\* a second mutating call, answered 500, has made the second request
C9_Witness ==
    /\ ncalls = 2
    /\ nrequests = 2
    /\ Called("create_policy")
    /\ response.status = 500
    /\ outcome.kind = "raise"

\* C10: the body of create_policy, update_policy and create_role has a key
\* exactly for each field the caller supplied, under its wire name, with the
\* supplied value; create_policy(name='p') alone sends exactly {"Name": "p"}.
WireArg ==
    [Name |-> "name", Datacenters |-> "datacenters",
     Description |-> "description", Rules |-> "rules",
     Policies |-> "policies", ServiceIdentities |-> "service_identities"]

C10_BodyKeys ==
    (call.op \in {"create_policy", "update_policy", "create_role"} /\ Sent) =>
        /\ sent.body.t = "body"
        /\ DOMAIN sent.body.m \subseteq DOMAIN WireArg
        /\ \A k \in DOMAIN WireArg :
              /\ k \in DOMAIN sent.body.m <=>
                    Kw(call.args, WireArg[k]).t # "None"
              /\ k \in DOMAIN sent.body.m =>
                    sent.body.m[k] = call.args[WireArg[k]]

C10_Witness ==
    /\ Called("create_policy")
    /\ call.args = [name |-> PyText("p"), datacenters |-> PyNone,
                    description |-> PyNone, rules |-> PyNone]
    /\ sent.body = PyBody([Name |-> PyText("p")])

====
